---- MODULE Spec2Model ----
(***************************************************************************)
(* The offscreen shader renderer of src/main.rs as a state machine.        *)
(*                                                                         *)
(* main() is one sequential process.  Every statement that talks to the    *)
(* outside (the OpenGL driver, the file system, standard output) is one    *)
(* step; the answer of the outside is the step's input `e`.  The state of  *)
(* the process is the record `run`; `twin` is a second process with the    *)
(* same arguments, used by SpecPair to step two runs side by side.         *)
(***************************************************************************)
EXTENDS Integers, Sequences, FiniteSets, TLC

VARIABLES run, twin

vars == <<run, twin>>

(***************************************************************************)
(* Bounds of the model.                                                    *)
(***************************************************************************)
\* The frame loop is followed for at most this many iterations.
MaxFrames == 5
\* The wall clock of SpecPair counts up to this value.
MaxClock == 1

(***************************************************************************)
(* u32 arithmetic.  TLC's integers stop at 2^31 - 1, so a product of two   *)
(* u32 values is computed on base-256 digits (little-endian) and only its  *)
(* low 32 bits are turned back into an integer.                            *)
(***************************************************************************)
BigOf(n) == [i \in 1..4 |-> (n \div (256 ^ (i - 1))) % 256]

RECURSIVE ConvSum(_, _, _, _)
ConvSum(a, b, k, i) ==
    IF i > Len(a) THEN 0
    ELSE (IF k + 1 - i >= 1 /\ k + 1 - i <= Len(b) THEN a[i] * b[k + 1 - i] ELSE 0)
         + ConvSum(a, b, k, i + 1)

RECURSIVE MulDigits(_, _, _, _)
MulDigits(a, b, k, carry) ==
    IF k > Len(a) + Len(b) THEN <<>>
    ELSE LET s == ConvSum(a, b, k, 1) + carry
         IN  <<s % 256>> \o MulDigits(a, b, k + 1, s \div 256)

\* The exact product of two digit sequences.
BigMul(a, b) == MulDigits(a, b, 1, 0)

BigDigit(a, i) == IF i <= Len(a) THEN a[i] ELSE 0

\* Equality of the numbers two digit sequences stand for.
BigEq(a, b) ==
    \A i \in 1..(Len(a) + Len(b)) : BigDigit(a, i) = BigDigit(b, i)

\* a * b does not fit in 32 bits.
MulOverflows(a, b) ==
    LET p == BigMul(BigOf(a), BigOf(b)) IN \E i \in 5..8 : p[i] # 0

\* a * b modulo 2^32.
WrappingMul(a, b) ==
    LET p == BigMul(BigOf(a), BigOf(b))
    IN  p[1] + 256 * p[2] + 65536 * p[3] + 16777216 * p[4]

\* Rust's `a * b` on u32: a panic when the build checks overflow (the debug
\* profile), the wrapped product otherwise (the release profile).
U32Mul(a, b, checks) ==
    [panic |-> checks /\ MulOverflows(a, b), val |-> WrappingMul(a, b)]

\* `n as f32`: exact below 2^24, rounded to 24 significant bits (ties to
\* even) above.
RECURSIVE F32Round(_, _)
F32Round(n, unit) ==
    IF n \div unit < 16777216
    THEN LET q == n \div unit
             rem == n % unit
             up == (2 * rem > unit) \/ (2 * rem = unit /\ q % 2 = 1)
         IN  IF up THEN (q + 1) * unit ELSE q * unit
    ELSE F32Round(n, 2 * unit)

AsF32(n) == F32Round(n, 1)

(***************************************************************************)
(* Inputs.  A command-line argument is its number, or -1 for a text that   *)
(* str::parse::<u32> rejects.  65536 is there so that products leave 32    *)
(* bits.  A fragment shader file is known by what the driver makes of it.  *)
(***************************************************************************)
Widths == {-1, 0, 1, 2, 65536}
Heights == {-1, 0, 1, 2, 65536}
FpsValues == {-1, 0, 1, 5, 65536}
Durations == {-1, 0, 1, 2, 65536}

\* "time_res": the shader of test_render_1x1_5fps_1sec,
\*             FragColor = vec4(iTime, iResolution.x, iResolution.y, 1.0)
\* "no_itime", "no_ires": the shaders of the two missing-uniform tests
\* "flat":     a constant colour, neither uniform is active
\* "syntax_error": rejected by the compiler
\* "no_main":  compiles, rejected by the linker
Shaders == {"time_res", "no_itime", "no_ires", "flat", "syntax_error", "no_main"}

Compiles(shader) == shader # "syntax_error"
Links(shader) == shader # "no_main"
ActiveUniforms(shader) ==
    CASE shader = "time_res" -> {"iTime", "iResolution"}
      [] shader = "no_itime" -> {"iResolution"}
      [] shader = "no_ires" -> {"iTime"}
      [] OTHER -> {}

\* What glGetUniformLocation returns for a name that is not an active uniform.
NotFound == -1

\* The location the driver gives an active uniform.
LocationOf(name) == IF name = "iResolution" THEN 0 ELSE 1

NoError == [kind |-> "none", at |-> "", info |-> ""]

\* The content of the colour attachment or of the pixel buffer: which
\* shader drew it, under which uniform values.  "zero" is vec![0u8; n],
\* "black" the cleared attachment, "empty" the attachment before the clear.
Blank(what) == [by |-> what, time |-> <<0, 1>>, res |-> <<0, 0>>]

\* The state of main() before its first statement.
InitRun(w, h, f, d, s, checks) ==
    [ pc |-> "parse_args",
      args |-> <<w, h, f, d>>,
      shader |-> s,
      overflow_checks |-> checks,
      err |-> NoError,
      width |-> 0, height |-> 0, fps |-> 0, duration |-> 0,
      \* the driver's objects
      gl_compiled |-> [vs |-> FALSE, fs |-> FALSE],
      gl_attached |-> {},
      gl_link_status |-> FALSE,
      gl_current |-> FALSE,
      gl_framebuffer_complete |-> FALSE,
      gl_iTime |-> <<0, 1>>,
      gl_iResolution |-> <<0, 0>>,
      gl_color |-> Blank("empty"),
      \* main's locals; a handle is 0 until the driver has given the object
      handles |-> [vs |-> 0, fs |-> 0, program |-> 0, framebuffer |-> 0,
                   texture |-> 0, vao |-> 0, vbo |-> 0],
      success |-> FALSE,
      i_resolution_loc |-> NotFound,
      i_time_loc |-> NotFound,
      pixels_len |-> 0,
      pixels |-> Blank("zero"),
      total |-> 0,
      frame |-> 0,
      \* what was done so far: the calls made, in order, and the writes to
      \* standard output, each with the bytes it handed over (of) and the
      \* bytes the sink took (n)
      steps |-> <<>>,
      out |-> <<>>,
      \* the wall clock of the machine, which main never reads
      now |-> 0 ]

Init ==
    \E w \in Widths, h \in Heights, f \in FpsValues, d \in Durations,
       s \in Shaders, checks \in BOOLEAN :
        /\ run = InitRun(w, h, f, d, s, checks)
        /\ twin = run

(***************************************************************************)
(* The outside's answer to one step: the code glGetError returns after the *)
(* call, whether a non-GL operation succeeded, and a byte count.           *)
(***************************************************************************)
Answer(code, ok, n) == [code |-> code, ok |-> ok, n |-> n]

\* glUseProgram on a program that did not link must raise INVALID_OPERATION;
\* a driver that lets it pass is allowed for as well.  Any other call may
\* fail for the driver's own reasons.
GlCodes(r) ==
    IF r.pc \in {"use_program_early", "use_program"} /\ ~r.gl_link_status
    THEN {"INVALID_OPERATION", "NO_ERROR"}
    ELSE {"NO_ERROR", "OUT_OF_MEMORY"}

\* A call is recorded, and main stops with err set.
Did(r) == [r EXCEPT !.steps = Append(@, r.pc)]

Panic(r, kind, info) ==
    [r EXCEPT !.pc = "failed", !.err = [kind |-> kind, at |-> r.pc, info |-> info]]

\* A guard that makes the call and never asks the driver for its error.
GlSafeUnchecked(r, e, after) == after

\* gl_safe!($block, $step_name): the call, then glGetError; a code other
\* than NO_ERROR panics with the code and the step's name.
GlSafe(r, e, after) ==
    IF e.code # "NO_ERROR"
    THEN Panic(Did(r), "GraphicsCallError", e.code)
    ELSE after

(***************************************************************************)
(* The statements of main(), in source order.  Each name is one call site. *)
(***************************************************************************)
Program ==
    << "parse_args", "create_context", "load_gl",
       "vs_create", "vs_source", "vs_compile",
       "read_shader", "fs_create", "fs_source", "fs_compile",
       "create_program", "attach_vs", "attach_fs", "link_program",
       "use_program_early", "get_link_status", "get_log_length", "get_info_log",
       "use_program",
       "gen_framebuffer", "bind_framebuffer", "gen_texture", "bind_texture",
       "tex_image", "tex_min_filter", "tex_mag_filter", "attach_texture",
       "check_framebuffer",
       "get_ires_loc", "set_ires", "get_itime_loc",
       "gen_vao", "gen_vbo", "bind_vao", "bind_vbo", "buffer_data",
       "vertex_attrib", "enable_attrib",
       "alloc_pixels", "viewport", "clear_color", "clear", "bind_vao_draw",
       "loop_init", "loop_next", "set_itime", "set_ires_frame", "draw",
       "read_pixels", "write" >>

\* The calls whose only modelled effect is the error check that follows them.
PlainCalls ==
    { "load_gl", "vs_source", "fs_source", "get_log_length",
      "bind_framebuffer", "bind_texture",
      "tex_image", "tex_min_filter", "tex_mag_filter", "attach_texture",
      "bind_vao", "bind_vbo", "buffer_data",
      "vertex_attrib", "enable_attrib", "viewport", "clear_color",
      "bind_vao_draw" }

\* The calls that make the driver create an object and store its handle.
CreateCalls ==
    { "vs_create", "fs_create", "create_program", "gen_framebuffer",
      "gen_texture", "gen_vao", "gen_vbo" }

\* The local that holds the handle a creating call returns.
ObjectOf(label) ==
    CASE label = "vs_create" -> "vs"
      [] label = "fs_create" -> "fs"
      [] label = "create_program" -> "program"
      [] label = "gen_framebuffer" -> "framebuffer"
      [] label = "gen_texture" -> "texture"
      [] label = "gen_vao" -> "vao"
      [] label = "gen_vbo" -> "vbo"

\* An order in which the frame is read back before it is drawn.
SuccReadBeforeDraw(label) ==
    CASE label = "set_ires_frame" -> "read_pixels"
      [] label = "read_pixels" -> "draw"
      [] label = "draw" -> "write"
      [] OTHER -> LET i == CHOOSE j \in 1..Len(Program) : Program[j] = label
                  IN  Program[i + 1]

\* The statement after `label` in source order.
Succ(label) ==
    LET i == CHOOSE j \in 1..Len(Program) : Program[j] = label
    IN  Program[i + 1]

\* The call at r.pc returned; main goes on with the next statement.
Go(r) == [Did(r) EXCEPT !.pc = Succ(r.pc)]

(***************************************************************************)
(* The steps.  Each takes the state r and the outside's answer e.          *)
(***************************************************************************)
ArgNames == <<"width", "height", "fps", "duration">>

\* lines 88-92: the four arguments are parsed as u32, in order.
ParseArgs(r) ==
    LET bad == {i \in 1..4 : r.args[i] < 0}
        first == CHOOSE i \in bad : \A j \in bad : i <= j
    IN  IF bad # {}
        THEN Panic(Did(r), "ParseError", ArgNames[first])
        ELSE [Go(r) EXCEPT !.width = r.args[1], !.height = r.args[2],
                           !.fps = r.args[3], !.duration = r.args[4]]

\* lines 95-101: the hidden window and its context; both unwrap().
CreateContext(r, e) ==
    IF e.ok THEN Go(r) ELSE Panic(Did(r), "ContextError", "unwrap")

\* A call that goes through the general arm of gl_safe! and nothing else.
GlSafeCall(r, e) == GlSafe(r, e, Go(r))

\* lines 53, 115, 138, 143, 180, 181: the driver creates an object and
\* returns a handle that no earlier object has.
CreateObject(r, e) ==
    LET made == {o \in DOMAIN r.handles : r.handles[o] # 0}
    IN  GlSafe(r, e, [Go(r) EXCEPT !.handles[ObjectOf(r.pc)] = Cardinality(made) + 1])

\* line 56: gl_safe!(gl::CompileShader(shader), ...).  The first arm of the
\* macro is written for the tokens `_shader:expr`, which no call site
\* spells, so this call too expands through the general arm: the compile
\* status the driver keeps is never read.
CompileShader(r, e, stage) ==
    LET verdict == IF stage = "fs" THEN Compiles(r.shader) ELSE TRUE
    IN  GlSafe(r, e, [Go(r) EXCEPT !.gl_compiled[stage] = verdict])

\* line 111: read_to_string(shader_path).expect(...)
ReadShader(r, e) ==
    IF e.ok THEN Go(r) ELSE Panic(Did(r), "ReadFileError", "Failed to read shader file")

\* lines 116-117
AttachShader(r, e, stage) ==
    GlSafe(r, e, [Go(r) EXCEPT !.gl_attached = @ \cup {stage}])

\* line 118: the link succeeds when both attached shaders compiled and the
\* linker accepts them.
LinkProgram(r, e) ==
    LET linked == /\ r.gl_attached = {"vs", "fs"}
                  /\ r.gl_compiled.vs /\ r.gl_compiled.fs
                  /\ Links(r.shader)
    IN  GlSafe(r, e, [Go(r) EXCEPT !.gl_link_status = linked])

\* lines 119 and 134
UseProgram(r, e) ==
    GlSafe(r, e, [Go(r) EXCEPT !.gl_current = TRUE])

\* lines 122-124: the link status is read into `success` and tested.
GetLinkStatus(r, e) ==
    GlSafe(r, e, [Did(r) EXCEPT !.success = r.gl_link_status,
                                !.pc = IF r.gl_link_status THEN "use_program"
                                       ELSE "get_log_length"])

\* lines 128-130: the log is fetched and main panics with it.
GetInfoLog(r, e) ==
    GlSafe(r, e, Panic(Did(r), "LinkError", "linker log"))

\* lines 151-153
\* A check of the framebuffer that goes on whatever the status is.
CheckFramebufferStatusIgnored(r, e) ==
    GlSafe(r, e, [Go(r) EXCEPT !.gl_framebuffer_complete = e.ok])

CheckFramebufferStatus(r, e) ==
    GlSafe(r, e, IF e.ok THEN [Go(r) EXCEPT !.gl_framebuffer_complete = TRUE]
                 ELSE Panic(Did(r), "IncompleteTargetError", "Framebuffer is not complete"))

\* GetUniformLocation without the test for -1.
GetUniformLocationUnchecked(r, e, name) ==
    LET loc == IF name \in ActiveUniforms(r.shader) THEN LocationOf(name) ELSE NotFound
    IN  GlSafe(r, e,
               IF name = "iResolution"
               THEN [Go(r) EXCEPT !.i_resolution_loc = loc]
               ELSE [Go(r) EXCEPT !.i_time_loc = loc])

\* lines 156-160 and 164-168
GetUniformLocation(r, e, name) ==
    LET loc == IF name \in ActiveUniforms(r.shader) THEN LocationOf(name) ELSE NotFound
    IN  GlSafe(r, e,
               IF loc = NotFound
               THEN Panic(Did(r), "UniformNotFoundError", name)
               ELSE IF name = "iResolution"
                    THEN [Go(r) EXCEPT !.i_resolution_loc = loc]
                    ELSE [Go(r) EXCEPT !.i_time_loc = loc])

\* lines 161 and 206: Uniform3f(i_resolution_loc, width as f32, height as f32, 0.0)
SetIResolution(r, e) ==
    GlSafe(r, e, [Go(r) EXCEPT !.gl_iResolution = <<AsF32(r.width), AsF32(r.height)>>])

\* line 190: vec![0u8; (width * height * 3) as usize]
AllocPixels(r) ==
    LET wh == U32Mul(r.width, r.height, r.overflow_checks)
        whc == U32Mul(wh.val, 3, r.overflow_checks)
    IN  IF wh.panic \/ whc.panic
        THEN Panic(Did(r), "OverflowPanic", "attempt to multiply with overflow")
        ELSE [Go(r) EXCEPT !.pixels_len = whc.val, !.pixels = Blank("zero")]

\* line 195
Clear(r, e) ==
    GlSafe(r, e, [Go(r) EXCEPT !.gl_color = Blank("black")])

\* LoopInit with a range that starts at 1.
LoopInitFromOne(r) ==
    LET n == U32Mul(r.fps, r.duration, r.overflow_checks)
    IN  IF n.panic
        THEN Panic(Did(r), "OverflowPanic", "attempt to multiply with overflow")
        ELSE [Go(r) EXCEPT !.total = n.val, !.frame = 1]

\* line 201: the range 0..(fps * duration) is built once.
LoopInit(r) ==
    LET n == U32Mul(r.fps, r.duration, r.overflow_checks)
    IN  IF n.panic
        THEN Panic(Did(r), "OverflowPanic", "attempt to multiply with overflow")
        ELSE [Go(r) EXCEPT !.total = n.val, !.frame = 0]

\* LoopNext with an inclusive bound.
LoopNextInclusive(r) ==
    [r EXCEPT !.pc = IF r.frame <= r.total THEN "set_itime" ELSE "done"]

\* line 201: the range yields the next frame, or main returns.
LoopNext(r) ==
    [r EXCEPT !.pc = IF r.frame < r.total THEN "set_itime" ELSE "done"]

\* SetITime with the division done on the integers: (frame / fps) as f32.
SetITimeIntegerDivision(r, e) ==
    GlSafe(r, e, [Go(r) EXCEPT !.gl_iTime = <<AsF32(r.frame \div r.fps), 1>>])

\* SetITime that looks the uniform up by name again in every frame.
SetITimeLookupPerFrame(r, e) ==
    LET looked == [Did([r EXCEPT !.pc = "get_itime_loc"]) EXCEPT !.pc = r.pc]
    IN  GlSafe(looked, e, [Go(looked) EXCEPT !.gl_iTime = <<AsF32(r.frame), AsF32(r.fps)>>])

\* SetITime with the seconds of the wall clock.
SetITimeWallClock(r, e) ==
    GlSafe(r, e, [Go(r) EXCEPT !.gl_iTime = <<AsF32(r.now), 1>>])

\* line 203: Uniform1f(i_time_loc, frame as f32 / fps as f32); the value is
\* kept as the two operands of the division.
SetITime(r, e) ==
    GlSafe(r, e, [Go(r) EXCEPT !.gl_iTime = <<AsF32(r.frame), AsF32(r.fps)>>])

\* line 209: the quad is drawn by the current program under the uniforms
\* the driver holds.
DrawArrays(r, e) ==
    GlSafe(r, e, [Go(r) EXCEPT !.gl_color =
                     [by |-> r.shader, time |-> r.gl_iTime, res |-> r.gl_iResolution]])

\* The driver writes width*height*3 bytes; the buffer holds pixels_len.
\* They differ exactly when the u32 product of line 190 wrapped.
ReadbackOverruns(r) ==
    \/ MulOverflows(r.width, r.height)
    \/ MulOverflows(WrappingMul(r.width, r.height), 3)

\* line 212.  A readback past the end of the buffer is undefined behaviour:
\* the process dies of a memory fault, or goes on.
ReadPixels(r, e) ==
    GlSafe(r, e, IF ReadbackOverruns(r) /\ ~e.ok
                 THEN Panic(Did(r), "MemoryFault", "write past the pixel buffer")
                 ELSE [Go(r) EXCEPT !.pixels = r.gl_color])

\* line 215: io::stdout().write_all(&pixels).unwrap().  write_all either
\* takes the whole buffer, or fails after the sink accepted e.n of its bytes.
\* A write whose result is dropped: the loop goes on after a failed write.
WriteAllIgnoringError(r, e) ==
    LET chunk == [frame |-> r.frame, px |-> r.pixels,
                  n |-> IF e.ok THEN r.pixels_len ELSE e.n, of |-> r.pixels_len]
        wrote == [Did(r) EXCEPT !.out = Append(@, chunk)]
    IN  [wrote EXCEPT !.frame = @ + 1, !.pc = "loop_next"]

WriteAll(r, e) ==
    LET chunk == [frame |-> r.frame, px |-> r.pixels,
                  n |-> IF e.ok THEN r.pixels_len ELSE e.n, of |-> r.pixels_len]
        wrote == [Did(r) EXCEPT !.out = Append(@, chunk)]
    IN  IF e.ok
        THEN [wrote EXCEPT !.frame = @ + 1, !.pc = "loop_next"]
        ELSE Panic(wrote, "IOError", "write_all")

(***************************************************************************)
(* What the outside may answer to the step at r.pc.                        *)
(***************************************************************************)
Quiet == Answer("NO_ERROR", TRUE, 0)

\* A framebuffer whose attachment has no width or no height is incomplete;
\* otherwise the driver decides.
FramebufferAnswers(r) ==
    IF r.width = 0 \/ r.height = 0 THEN {FALSE} ELSE BOOLEAN

\* The byte counts after which a failing write_all may have stopped.
PartialCounts(r) == {k \in {0, 1, r.pixels_len - 1} : 0 <= k /\ k < r.pixels_len}

Env(r) ==
    CASE r.pc \in {"parse_args", "alloc_pixels", "loop_init"} -> {Quiet}
      [] r.pc = "loop_next" ->
            \* the loop is followed for MaxFrames iterations
            IF r.frame < r.total /\ r.frame >= MaxFrames THEN {} ELSE {Quiet}
      [] r.pc \in {"create_context", "read_shader"} ->
            {Answer("NO_ERROR", ok, 0) : ok \in BOOLEAN}
      [] r.pc = "check_framebuffer" ->
            {Answer(c, ok, 0) : c \in GlCodes(r), ok \in FramebufferAnswers(r)}
      [] r.pc = "read_pixels" ->
            {Answer(c, ok, 0) : c \in GlCodes(r),
                                ok \in IF ReadbackOverruns(r) THEN BOOLEAN ELSE {TRUE}}
      [] r.pc = "write" ->
            {Quiet} \cup {Answer("NO_ERROR", FALSE, k) : k \in PartialCounts(r)}
      [] r.pc \in {"done", "failed"} -> {}
      [] OTHER -> {Answer(c, TRUE, 0) : c \in GlCodes(r)}

\* One step of main() from state r under the answer e.
Step(r, e) ==
    CASE r.pc = "parse_args" -> ParseArgs(r)
      [] r.pc = "create_context" -> CreateContext(r, e)
      [] r.pc \in PlainCalls -> GlSafeCall(r, e)
      [] r.pc \in CreateCalls -> CreateObject(r, e)
      [] r.pc = "vs_compile" -> CompileShader(r, e, "vs")
      [] r.pc = "read_shader" -> ReadShader(r, e)
      [] r.pc = "fs_compile" -> CompileShader(r, e, "fs")
      [] r.pc = "attach_vs" -> AttachShader(r, e, "vs")
      [] r.pc = "attach_fs" -> AttachShader(r, e, "fs")
      [] r.pc = "link_program" -> LinkProgram(r, e)
      [] r.pc \in {"use_program_early", "use_program"} -> UseProgram(r, e)
      [] r.pc = "get_link_status" -> GetLinkStatus(r, e)
      [] r.pc = "get_info_log" -> GetInfoLog(r, e)
      [] r.pc = "check_framebuffer" -> CheckFramebufferStatus(r, e)
      [] r.pc = "get_ires_loc" -> GetUniformLocation(r, e, "iResolution")
      [] r.pc \in {"set_ires", "set_ires_frame"} -> SetIResolution(r, e)
      [] r.pc = "get_itime_loc" -> GetUniformLocation(r, e, "iTime")
      [] r.pc = "alloc_pixels" -> AllocPixels(r)
      [] r.pc = "clear" -> Clear(r, e)
      [] r.pc = "loop_init" -> LoopInit(r)
      [] r.pc = "loop_next" -> LoopNext(r)
      [] r.pc = "set_itime" -> SetITime(r, e)
      [] r.pc = "draw" -> DrawArrays(r, e)
      [] r.pc = "read_pixels" -> ReadPixels(r, e)
      [] r.pc = "write" -> WriteAll(r, e)

(***************************************************************************)
(* One run: an action for each statement of main().                        *)
(***************************************************************************)
DoParseArgs ==
    /\ run.pc = "parse_args"
    /\ run' = ParseArgs(run)
    /\ UNCHANGED twin

DoCreateContext ==
    /\ run.pc = "create_context"
    /\ \E e \in Env(run) : run' = CreateContext(run, e)
    /\ UNCHANGED twin

DoGlSafeCall ==
    /\ run.pc \in PlainCalls
    /\ \E e \in Env(run) : run' = GlSafeCall(run, e)
    /\ UNCHANGED twin

DoCreateObject ==
    /\ run.pc \in CreateCalls
    /\ \E e \in Env(run) : run' = CreateObject(run, e)
    /\ UNCHANGED twin

DoCompileVertexShader ==
    /\ run.pc = "vs_compile"
    /\ \E e \in Env(run) : run' = CompileShader(run, e, "vs")
    /\ UNCHANGED twin

DoReadShader ==
    /\ run.pc = "read_shader"
    /\ \E e \in Env(run) : run' = ReadShader(run, e)
    /\ UNCHANGED twin

DoCompileFragmentShader ==
    /\ run.pc = "fs_compile"
    /\ \E e \in Env(run) : run' = CompileShader(run, e, "fs")
    /\ UNCHANGED twin

DoAttachVertexShader ==
    /\ run.pc = "attach_vs"
    /\ \E e \in Env(run) : run' = AttachShader(run, e, "vs")
    /\ UNCHANGED twin

DoAttachFragmentShader ==
    /\ run.pc = "attach_fs"
    /\ \E e \in Env(run) : run' = AttachShader(run, e, "fs")
    /\ UNCHANGED twin

DoLinkProgram ==
    /\ run.pc = "link_program"
    /\ \E e \in Env(run) : run' = LinkProgram(run, e)
    /\ UNCHANGED twin

DoUseProgramEarly ==
    /\ run.pc = "use_program_early"
    /\ \E e \in Env(run) : run' = UseProgram(run, e)
    /\ UNCHANGED twin

DoGetLinkStatus ==
    /\ run.pc = "get_link_status"
    /\ \E e \in Env(run) : run' = GetLinkStatus(run, e)
    /\ UNCHANGED twin

DoGetInfoLog ==
    /\ run.pc = "get_info_log"
    /\ \E e \in Env(run) : run' = GetInfoLog(run, e)
    /\ UNCHANGED twin

DoUseProgram ==
    /\ run.pc = "use_program"
    /\ \E e \in Env(run) : run' = UseProgram(run, e)
    /\ UNCHANGED twin

DoCheckFramebufferStatus ==
    /\ run.pc = "check_framebuffer"
    /\ \E e \in Env(run) : run' = CheckFramebufferStatus(run, e)
    /\ UNCHANGED twin

DoGetIResolutionLocation ==
    /\ run.pc = "get_ires_loc"
    /\ \E e \in Env(run) : run' = GetUniformLocation(run, e, "iResolution")
    /\ UNCHANGED twin

DoSetIResolution ==
    /\ run.pc = "set_ires"
    /\ \E e \in Env(run) : run' = SetIResolution(run, e)
    /\ UNCHANGED twin

DoGetITimeLocation ==
    /\ run.pc = "get_itime_loc"
    /\ \E e \in Env(run) : run' = GetUniformLocation(run, e, "iTime")
    /\ UNCHANGED twin

DoAllocPixels ==
    /\ run.pc = "alloc_pixels"
    /\ run' = AllocPixels(run)
    /\ UNCHANGED twin

DoClear ==
    /\ run.pc = "clear"
    /\ \E e \in Env(run) : run' = Clear(run, e)
    /\ UNCHANGED twin

DoLoopInit ==
    /\ run.pc = "loop_init"
    /\ run' = LoopInit(run)
    /\ UNCHANGED twin

DoLoopNext ==
    /\ run.pc = "loop_next" /\ Env(run) # {}
    /\ run' = LoopNext(run)
    /\ UNCHANGED twin

DoSetITime ==
    /\ run.pc = "set_itime"
    /\ \E e \in Env(run) : run' = SetITime(run, e)
    /\ UNCHANGED twin

DoSetIResolutionFrame ==
    /\ run.pc = "set_ires_frame"
    /\ \E e \in Env(run) : run' = SetIResolution(run, e)
    /\ UNCHANGED twin

DoDrawArrays ==
    /\ run.pc = "draw"
    /\ \E e \in Env(run) : run' = DrawArrays(run, e)
    /\ UNCHANGED twin

DoReadPixels ==
    /\ run.pc = "read_pixels"
    /\ \E e \in Env(run) : run' = ReadPixels(run, e)
    /\ UNCHANGED twin

DoWriteAll ==
    /\ run.pc = "write"
    /\ \E e \in Env(run) : run' = WriteAll(run, e)
    /\ UNCHANGED twin

Next ==
    \/ DoParseArgs
    \/ DoCreateContext
    \/ DoGlSafeCall
    \/ DoCreateObject
    \/ DoCompileVertexShader
    \/ DoReadShader
    \/ DoCompileFragmentShader
    \/ DoAttachVertexShader
    \/ DoAttachFragmentShader
    \/ DoLinkProgram
    \/ DoUseProgramEarly
    \/ DoGetLinkStatus
    \/ DoGetInfoLog
    \/ DoUseProgram
    \/ DoCheckFramebufferStatus
    \/ DoGetIResolutionLocation
    \/ DoSetIResolution
    \/ DoGetITimeLocation
    \/ DoAllocPixels
    \/ DoClear
    \/ DoLoopInit
    \/ DoLoopNext
    \/ DoSetITime
    \/ DoSetIResolutionFrame
    \/ DoDrawArrays
    \/ DoReadPixels
    \/ DoWriteAll

Spec == Init /\ [][Next]_vars

(***************************************************************************)
(* Two runs of the same command line, side by side: every statement gets   *)
(* the same answer from the outside in both; only the wall clocks differ.  *)
(***************************************************************************)
PairStep ==
    /\ run.pc = twin.pc
    /\ \E e \in Env(run) :
        /\ run' = Step(run, e)
        /\ twin' = Step(twin, e)

TickRun ==
    /\ run.now < MaxClock
    /\ run' = [run EXCEPT !.now = @ + 1]
    /\ UNCHANGED twin

TickTwin ==
    /\ twin.now < MaxClock
    /\ twin' = [twin EXCEPT !.now = @ + 1]
    /\ UNCHANGED run

PairNext ==
    \/ PairStep
    \/ TickRun
    \/ TickTwin

SpecPair == Init /\ [][PairNext]_vars

(***************************************************************************)
(* Reading the state.                                                      *)
(***************************************************************************)
Range(seq) == {seq[i] : i \in 1..Len(seq)}

RECURSIVE BytesUpTo(_, _)
BytesUpTo(out, k) == IF k = 0 THEN 0 ELSE out[k].n + BytesUpTo(out, k - 1)

\* The number of bytes standard output has taken.
OutBytes(r) == BytesUpTo(r.out, Len(r.out))

\* The arguments were all accepted by the parser.
Parsed(r) == \A i \in 1..4 : r.args[i] >= 0

LoopBody == {"set_itime", "set_ires_frame", "draw", "read_pixels", "write"}

\* A float in [0, 1] stored in an 8-bit normalized channel; the float is
\* num/den.
Unorm8(num, den) ==
    IF num >= den THEN 255 ELSE (2 * 255 * num + den) \div (2 * den)

\* The three bytes of a pixel drawn by the shader of
\* test_render_1x1_5fps_1sec: (iTime, iResolution.x, iResolution.y).
PixelBytes(px) ==
    << Unorm8(px.time[1], px.time[2]), Unorm8(px.res[1], 1), Unorm8(px.res[2], 1) >>

(***************************************************************************)
(* The claims.                                                             *)
(***************************************************************************)
\* width * height * 3 * fps * duration, exactly.
ExpectedBytes(r) ==
    BigMul(BigMul(BigMul(BigOf(r.width), BigOf(r.height)), BigOf(3)),
           BigMul(BigOf(r.fps), BigOf(r.duration)))

\* C1: for width > 0, height > 0, fps > 0 and any duration, a run that ends
\* in success has written exactly width*height*3*fps*duration bytes, as
\* fps*duration frames of width*height*3 bytes each.
C1_ExactOutputLength ==
    (run.pc = "done" /\ run.width > 0 /\ run.height > 0 /\ run.fps > 0) =>
        /\ BigEq(BigOf(OutBytes(run)), ExpectedBytes(run))
        /\ BigEq(BigOf(Len(run.out)), BigMul(BigOf(run.fps), BigOf(run.duration)))
        /\ \A k \in 1..Len(run.out) :
              BigEq(BigOf(run.out[k].n),
                    BigMul(BigMul(BigOf(run.width), BigOf(run.height)), BigOf(3)))

\* C2: with duration = 0 or fps = 0 the loop body is never entered, the sink
\* is never called, nothing is written, the loop ends at once, and the run
\* is stopped by nothing but a failure of the setup.
C2_ZeroFramesSucceed ==
    (Parsed(run) /\ (run.args[3] = 0 \/ run.args[4] = 0)) =>
        /\ run.out = <<>>
        /\ Range(run.steps) \cap LoopBody = {}
        /\ run.pc \notin LoopBody
        /\ run.pc = "loop_next" => (run.total = 0 /\ run.frame = 0)
        /\ run.pc = "failed" => run.err.at \notin (LoopBody \cup {"loop_init", "loop_next"})

C2_Witness ==
    /\ run.pc = "done"
    /\ run.fps = 0
    /\ run.duration = 1
    /\ run.out = <<>>

LookupOf(name) == IF name = "iResolution" THEN "get_ires_loc" ELSE "get_itime_loc"

\* The linked program has no active uniform `name`, and the lookup was made
\* and came back (with -1) without a driver error.
ReturnedNotFound(r, name) ==
    /\ LookupOf(name) \in Range(r.steps)
    /\ name \notin ActiveUniforms(r.shader)
    /\ ~(r.err.kind = "GraphicsCallError" /\ r.err.at = LookupOf(name))

\* C3: when the lookup of iResolution or of iTime returns -1, the run has
\* failed at that lookup with a uniform-not-found error naming the uniform,
\* before any frame: nothing of the loop body was executed, nothing written.
C3_MissingUniformIsFatal ==
    \A name \in {"iResolution", "iTime"} :
        ReturnedNotFound(run, name) =>
            /\ run.pc = "failed"
            /\ run.err = [kind |-> "UniformNotFoundError", at |-> LookupOf(name),
                          info |-> name]
            /\ Range(run.steps) \cap LoopBody = {}
            /\ run.out = <<>>

C3_Witness ==
    /\ run.pc = "failed"
    /\ run.err.kind = "UniformNotFoundError"
    /\ run.err.info = "iTime"
    /\ run.shader = "no_itime"

\* C4: when the compiler rejects the fragment shader (and the driver raised
\* no error at the compile call), the run has failed at the compile step
\* with a CompileError, no attach, link or use was executed, and nothing
\* was written.
C4_CompileErrorStopsPipeline ==
    ( /\ "fs_compile" \in Range(run.steps)
      /\ ~Compiles(run.shader)
      /\ ~(run.err.kind = "GraphicsCallError" /\ run.err.at = "fs_compile") ) =>
        /\ run.pc = "failed"
        /\ run.err.kind = "CompileError"
        /\ run.err.at = "fs_compile"
        /\ Range(run.steps) \cap {"attach_vs", "attach_fs", "link_program",
                                   "use_program_early", "use_program"} = {}
        /\ run.out = <<>>

\* C5: when both shaders compiled, the link failed and the run has ended in
\* failure (the driver being out of memory aside), the failure is a
\* LinkError carrying the linker's log, and nothing was written.
C5_LinkErrorReported ==
    ( /\ "link_program" \in Range(run.steps)
      /\ Compiles(run.shader)
      /\ ~run.gl_link_status
      /\ run.pc = "failed"
      /\ run.err.info # "OUT_OF_MEMORY" ) =>
        /\ run.err.kind = "LinkError"
        /\ run.err.info = "linker log"
        /\ run.out = <<>>

\* C6: the k-th call of the sink carries frame k-1: the loop index is k-1
\* and the pixels were drawn under the time of frame k-1.
C6_FramesInOrder ==
    \A k \in 1..Len(run.out) :
        /\ run.out[k].frame = k - 1
        /\ run.out[k].px.by = run.shader
        /\ run.out[k].px.time[1] = k - 1

C6_Witness ==
    /\ run.pc = "done"
    /\ Len(run.out) >= 3

\* C7: standard output holds whole frames only: every write was taken in
\* full or not at all, and a run that succeeded wrote all its frames.
C7_OnlyWholeFrames ==
    /\ \A k \in 1..Len(run.out) : run.out[k].n \in {0, run.out[k].of}
    /\ run.pc = "done" => Len(run.out) = run.total

\* C8: the time uniform under which frame i is drawn is i / fps, and for
\* the 1x1 shader (iTime, iResolution.x, iResolution.y) frame i is the bytes
\* round(255 * min(1, i/fps)), 255, 255; with fps = 5 the first bytes are
\* 0, 51, 102, 153, 204.
C8_TimeIsFrameOverFps ==
    /\ run.pc \in {"set_ires_frame", "draw"} =>
          /\ run.gl_iTime[2] > 0
          /\ run.gl_iTime[1] * run.fps = run.frame * run.gl_iTime[2]
    /\ \A k \in 1..Len(run.out) :
          /\ run.out[k].px.time[2] > 0
          /\ run.out[k].px.time[1] * run.fps = (k - 1) * run.out[k].px.time[2]
          /\ (run.width = 1 /\ run.height = 1 /\ run.shader = "time_res") =>
                /\ PixelBytes(run.out[k].px) = <<Unorm8(k - 1, run.fps), 255, 255>>
                /\ (run.fps = 5 /\ k <= 5) =>
                      PixelBytes(run.out[k].px)[1] = <<0, 51, 102, 153, 204>>[k]

C8_Witness ==
    /\ run.pc = "done"
    /\ run.width = 1 /\ run.height = 1 /\ run.fps = 5 /\ run.duration = 1
    /\ Len(run.out) = 5
    /\ PixelBytes(run.out[5].px) = <<204, 255, 255>>

\* C9: a run given width = 0, height = 0 or fps = 0 never reaches the frame
\* loop and never ends in success.
C9_ParametersValidated ==
    (Parsed(run) /\ (run.args[1] = 0 \/ run.args[2] = 0 \/ run.args[3] = 0)) =>
        run.pc \notin (LoopBody \cup {"loop_init", "loop_next", "done"})

\* C10: two runs of the same command line that get the same answers from
\* the outside agree at every step on what they have written, on where
\* they are and on how they failed, whatever their wall clocks show.
C10_Deterministic ==
    /\ run.out = twin.out
    /\ run.pc = twin.pc
    /\ run.err = twin.err

C10_Witness ==
    /\ run.pc = "done"
    /\ twin.pc = "done"
    /\ Len(run.out) >= 2
    /\ run.now # twin.now

\* ---------------------------------------------------------------------------
\* The statements of the setup, lines 88-198: every statement before the loop.
SetupCalls == Range(Program) \ (LoopBody \cup {"loop_init", "loop_next"})

\* The statements of lines 125-130, which run only when linking failed.
LinkFailureCalls == {"get_log_length", "get_info_log"}

\* C11: no byte is handed to the sink before the whole setup has succeeded:
\* whenever the sink has been written to, both shaders compiled, the program
\* linked and its status was read as success, the framebuffer was found
\* complete and both uniform locations are resolved; and a run that failed in
\* the setup has written nothing.
C11_NoOutputBeforeSetup ==
    /\ run.out # <<>> =>
         /\ run.gl_compiled.vs /\ run.gl_compiled.fs
         /\ run.gl_link_status /\ run.success
         /\ run.gl_framebuffer_complete
         /\ run.i_resolution_loc # NotFound /\ run.i_time_loc # NotFound
         /\ SetupCalls \ LinkFailureCalls \subseteq Range(run.steps)
    /\ (run.pc = "failed" /\ run.err.at \in SetupCalls) => run.out = <<>>

\* A run that wrote frames after a setup that passed every check.
C11_Witness ==
    /\ run.pc = "done" /\ OutBytes(run) > 0
    /\ run.gl_framebuffer_complete

\* ---------------------------------------------------------------------------
\* The statements that are a call into the graphics driver, each written as
\* gl_safe!(call, label).
GraphicsCalls ==
    Range(Program) \ {"parse_args", "create_context", "read_shader",
                      "alloc_pixels", "loop_init", "loop_next", "write"}

\* C12: every graphics call, in the setup and in the loop, is followed by an
\* error check: whatever non-zero code the driver reports after the call, the
\* run stops at that call with the call's label and the raw code, the sink
\* is left as it was and nothing more is executed; and a run that stopped on
\* a graphics error stopped right after the call it names.
C12_EveryCallChecked ==
    /\ run.pc \in GraphicsCalls =>
         \A e \in Env(run) :
            e.code # "NO_ERROR" =>
               LET s == Step(run, e)
               IN  /\ s.pc = "failed"
                   /\ s.err = [kind |-> "GraphicsCallError", at |-> run.pc, info |-> e.code]
                   /\ s.steps = Append(run.steps, run.pc)
                   /\ s.out = run.out
                   /\ Env(s) = {}
    /\ run.err.kind = "GraphicsCallError" =>
         /\ run.pc = "failed"
         /\ run.err.at \in GraphicsCalls
         /\ run.err.info # "NO_ERROR"
         /\ run.steps # <<>> /\ run.steps[Len(run.steps)] = run.err.at
         /\ Env(run) = {}

\* A draw call of the second frame failed, after one frame was written.
C12_Witness ==
    /\ run.pc = "failed" /\ run.err.kind = "GraphicsCallError"
    /\ run.err.at = "draw" /\ run.frame = 1 /\ Len(run.out) = 1

\* ---------------------------------------------------------------------------
\* C13: a sink write that fails for frame i is fatal: the failed write is the
\* last thing the run did, the run is in the error state with the write
\* error, and no frame after i was rendered, read back or written.
C13_SinkFailureIsFatal ==
    /\ \A k \in 1..Len(run.out) :
          run.out[k].n < run.out[k].of =>
             /\ k = Len(run.out)
             /\ run.pc = "failed"
             /\ run.err.kind = "IOError" /\ run.err.at = "write"
             /\ run.frame = run.out[k].frame
             /\ run.steps[Len(run.steps)] = "write"
             /\ Env(run) = {}
    /\ run.err.kind = "IOError" =>
          /\ run.out # <<>>
          /\ run.out[Len(run.out)].n < run.out[Len(run.out)].of

\* The write of the second frame failed after part of the frame went out.
C13_Witness ==
    /\ run.pc = "failed" /\ run.err.kind = "IOError"
    /\ Len(run.out) = 2 /\ run.frame = 1 /\ run.total > 2
    /\ run.out[2].n > 0

\* ---------------------------------------------------------------------------
\* C14: the program is made current only after its link status was queried
\* and found successful: in no state is the program current while the status
\* has not been read yet or was read as a failure.
C14_ActivatedOnlyAfterLinkCheck ==
    run.gl_current =>
       /\ "get_link_status" \in Range(run.steps)
       /\ run.success

\* ---------------------------------------------------------------------------
\* How often a statement occurs in a sequence of executed statements.
Count(seq, label) == Cardinality({k \in 1..Len(seq) : seq[k] = label})

\* The statements executed in the current iteration of the loop of line 201:
\* those after the loop began or after the previous iteration's write.
IterationSteps(r) ==
    LET marks == {k \in 1..Len(r.steps) : r.steps[k] \in {"loop_init", "write"}}
        from == IF marks = {} THEN 0 ELSE CHOOSE k \in marks : \A j \in marks : j <= k
    IN  SubSeq(r.steps, from + 1, Len(r.steps))

\* C15: in every iteration, before the readback, the viewport is set, the
\* color buffer is cleared and exactly one draw is issued: when an iteration
\* has read its frame back, it holds its own viewport call, its own clear
\* and its own single draw.
C15_ClearAndDrawPerFrame ==
    run.pc = "write" =>
       /\ Count(IterationSteps(run), "viewport") = 1
       /\ Count(IterationSteps(run), "clear") = 1
       /\ Count(IterationSteps(run), "draw") = 1

\* ---------------------------------------------------------------------------
\* The statements of one iteration, lines 203-215, in source order.
FrameCycle == <<"set_itime", "set_ires_frame", "draw", "read_pixels", "write">>

\* The statements executed since the loop of line 201 began.
LoopSteps(r) ==
    LET marks == {k \in 1..Len(r.steps) : r.steps[k] = "loop_init"}
    IN  IF marks = {} THEN <<>>
        ELSE SubSeq(r.steps, (CHOOSE k \in marks : TRUE) + 1, Len(r.steps))

\* C16: within each frame the order is time-uniform update, draw, readback,
\* sink write, and frames do not overlap: what the loop has executed is the
\* iteration's statements in that order, repeated frame after frame, so the
\* readback of frame i precedes the write of frame i, which precedes the
\* time update of frame i+1; and the k-th write carries frame k-1.
C16_FrameStepsInOrder ==
    /\ \A j \in 1..Len(LoopSteps(run)) :
          LoopSteps(run)[j] = FrameCycle[((j - 1) % Len(FrameCycle)) + 1]
    /\ Count(run.steps, "loop_init") <= 1
    /\ Len(run.out) = Count(run.steps, "write")
    /\ \A k \in 1..Len(run.out) : run.out[k].frame = k - 1
    /\ run.pc \in {"loop_next", "set_itime", "done"} /\ "loop_init" \in Range(run.steps)
          => Len(LoopSteps(run)) = run.frame * Len(FrameCycle)

\* Two frames went through the loop and the run ended.
C16_Witness ==
    /\ run.pc = "done" /\ run.total = 2 /\ Len(run.out) = 2
    /\ Len(LoopSteps(run)) = 10

\* ---------------------------------------------------------------------------
\* What the setup of lines 88-198 established: the parameters, the objects'
\* handles and their state in the driver, the two uniform locations and the
\* length of the pixel buffer.
SetupState(r) ==
    [ width |-> r.width, height |-> r.height, fps |-> r.fps, duration |-> r.duration,
      handles |-> r.handles,
      gl_compiled |-> r.gl_compiled, gl_attached |-> r.gl_attached,
      gl_link_status |-> r.gl_link_status, gl_current |-> r.gl_current,
      gl_framebuffer_complete |-> r.gl_framebuffer_complete,
      success |-> r.success,
      i_resolution_loc |-> r.i_resolution_loc, i_time_loc |-> r.i_time_loc,
      pixels_len |-> r.pixels_len ]

\* The run is inside the loop of lines 201-216.
InLoop(r) == r.pc \in LoopBody \cup {"loop_next"}

\* C17: the frame loop leaves the setup state unchanged: a step taken inside
\* the loop keeps the handles, the two uniform locations and the length of
\* the pixel buffer, and executes no statement of the setup (no lookup of a
\* uniform location, no creation of an object, no allocation of the buffer).
C17_LoopKeepsSetup ==
    [][ InLoop(run) =>
          /\ SetupState(run') = SetupState(run)
          /\ \A k \in (Len(run.steps) + 1)..Len(run'.steps) :
                run'.steps[k] \in LoopBody ]_vars

\* The loop ran five frames over a setup that is still in place.
C17_Witness ==
    /\ run.pc = "done" /\ run.frame = 5 /\ OutBytes(run) = 5 * run.pixels_len
    /\ run.pixels_len > 0
    /\ \A o \in DOMAIN run.handles : run.handles[o] # 0
    /\ run.i_time_loc # NotFound /\ run.i_resolution_loc # NotFound

\* ---------------------------------------------------------------------------
\* The loop has been followed for MaxFrames iterations and has more to do.
Capped(r) == r.pc = "loop_next" /\ r.frame < r.total /\ r.frame >= MaxFrames

\* The place of a statement in main.
IndexOf(label) == CHOOSE j \in 1..Len(Program) : Program[j] = label

\* An upper bound on the statements a run has still to execute, with the
\* loop followed for MaxFrames iterations: main has no backward jump but the
\* loop's, and the loop's counter only grows.
Rank(r) ==
    LET left == (IF r.total < MaxFrames THEN r.total ELSE MaxFrames) - r.frame
    IN  CASE r.pc \in {"done", "failed"} -> 0
          [] r.pc = "loop_next" -> 6 * left + 6
          [] r.pc \in LoopBody -> 6 * left + (Len(Program) + 1 - IndexOf(r.pc))
          [] OTHER -> 6 * MaxFrames + 7 + (Len(Program) - IndexOf(r.pc))

\* Every statement executed brings the run closer to its end, and a run
\* that has not ended can execute its next statement: every run terminates
\* and none stops inside the loop.
RunProgresses == [][Rank(run') < Rank(run) /\ Rank(run') >= 0]_vars

RunNeverStuck == run.pc \in {"done", "failed"} \/ Capped(run) \/ Env(run) # {}

\* C18: every run terminates: once the setup has succeeded the run ends in
\* success after exactly fps*duration iterations if no graphics call and no
\* sink write fails, and otherwise in the error state at the first such
\* failure; it never iterates more than fps*duration times.  As a property
\* of the states: the iterations made never exceed the product, a run that
\* ended in success made exactly the product's number of iterations, and a
\* run that failed after the setup failed on a graphics call or on a write.
C18_EndsAfterTotalFrames ==
    LET product == BigMul(BigOf(run.fps), BigOf(run.duration))
        past == "loop_init" \in Range(run.steps)
    IN  /\ past /\ run.pc # "failed" => run.frame <= run.total
        /\ past /\ run.pc # "failed" => BigEq(BigOf(run.total), product)
        /\ run.pc = "done" =>
              /\ run.frame = run.total
              /\ BigEq(BigOf(Len(run.out)), product)
        /\ (run.pc = "failed" /\ run.err.at \notin SetupCalls) =>
              run.err.kind \in {"GraphicsCallError", "IOError"}

\* ---------------------------------------------------------------------------
\* The statement has been executed and did not stop the run.
Passed(r, label) == label \in Range(r.steps) /\ r.err.at # label

\* C19: the pixel buffer's length and the iteration count equal the
\* mathematical products width*height*3 and fps*duration for every input: in
\* no state is the allocated length or the loop's count a wrapped product,
\* and no readback is made into a buffer shorter than the frame.
C19_ProductsAreExact ==
    /\ Passed(run, "alloc_pixels") =>
          BigEq(BigOf(run.pixels_len),
                BigMul(BigMul(BigOf(run.width), BigOf(run.height)), BigOf(3)))
    /\ Passed(run, "loop_init") =>
          BigEq(BigOf(run.total), BigMul(BigOf(run.fps), BigOf(run.duration)))
    /\ run.pc = "read_pixels" => ~ReadbackOverruns(run)

\* ---------------------------------------------------------------------------
\* The run is between two frames: before the time update of frame
\* run.frame, or after the last frame.
AtFrameBoundary(r) ==
    Passed(r, "loop_init") /\ r.pc \in {"loop_next", "set_itime", "done"}

\* C20: at every frame boundary the bytes written so far are
\* i * width*height*3, where i is the number of frames completed: the byte
\* count and the frame counter advance together.
C20_BytesFollowFrames ==
    AtFrameBoundary(run) =>
       /\ Len(run.out) = run.frame
       /\ BigEq(BigOf(OutBytes(run)),
                BigMul(BigOf(run.frame),
                       BigMul(BigMul(BigOf(run.width), BigOf(run.height)), BigOf(3))))

====
